---- MODULE Spec2Model ----
(***************************************************************************)
(* Model of filesystem/mountpoint.go (fscrypt): the mount table loaded     *)
(* from /proc/self/mountinfo, its two indexes, the table mutex, and the    *)
(* queries built on top of them.                                           *)
(*                                                                         *)
(* Strings are sequences of byte values, as Go strings are.                *)
(***************************************************************************)
EXTENDS Integers, Sequences, FiniteSets, TLC

(***************************************************************************)
(* Byte values of the characters the model writes.                         *)
(***************************************************************************)
CH ==
    [ sp |-> 32, plus |-> 43, dash |-> 45, dot |-> 46, sl |-> 47,
      d0 |-> 48, d1 |-> 49, d2 |-> 50, d3 |-> 51, d4 |-> 52, d7 |-> 55,
      colon |-> 58, eq |-> 61, bs |-> 92,
      A |-> 65, B |-> 66, D |-> 68, E |-> 69, I |-> 73, L |-> 76, U |-> 85,
      V |-> 86, W |-> 87,
      a |-> 97, b |-> 98, c |-> 99, d |-> 100, e |-> 101, f |-> 102, g |-> 103,
      h |-> 104, i |-> 105, k |-> 107, l |-> 108, m |-> 109, n |-> 110, o |-> 111,
      p |-> 112, r |-> 114, s |-> 115, t |-> 116, u |-> 117, v |-> 118,
      w |-> 119, x |-> 120, y |-> 121 ]

EmptyStr == << >>

(***************************************************************************)
(* strconv.ParseInt(s, 8, 8) on the three bytes after a backslash: an      *)
(* optional sign, then octal digits; the value must fit a signed 8-bit     *)
(* integer.  The result is [ok, val].                                      *)
(***************************************************************************)
IsOctalDigit(ch) == ch \in 48..55

RECURSIVE OctalValue(_)
OctalValue(digits) ==
    IF digits = << >> THEN 0
    ELSE 8 * OctalValue(SubSeq(digits, 1, Len(digits) - 1))
         + (digits[Len(digits)] - 48)

ParseInt(s) ==
    LET signed == Len(s) > 0 /\ s[1] \in {CH.plus, CH.dash}
        neg    == signed /\ s[1] = CH.dash
        digits == IF signed THEN SubSeq(s, 2, Len(s)) ELSE s
        syntax == /\ digits # << >>
                  /\ \A k \in 1..Len(digits) : IsOctalDigit(digits[k])
        un     == IF syntax THEN OctalValue(digits) ELSE 0
        range  == IF neg THEN un <= 128 ELSE un < 128
    IN  [ok |-> syntax /\ range, val |-> IF neg THEN 0 - un ELSE un]

(* uint8(parsed) *)
Uint8(v) == (v + 256) % 256

(***************************************************************************)
(* unescapeString: the loop of lines 59-68, i counted from 1.              *)
(***************************************************************************)
(* The loop with i+4 < len(str) for the bound of line 61: an escape at the *)
(* very end of the string is not decoded.                                  *)
RECURSIVE unescapeFromShortOfEnd(_, _)
unescapeFromShortOfEnd(str, i) ==
    IF i > Len(str) THEN << >>
    ELSE IF str[i] = CH.bs /\ i + 4 <= Len(str)
                /\ ParseInt(SubSeq(str, i + 1, i + 3)).ok
         THEN <<Uint8(ParseInt(SubSeq(str, i + 1, i + 3)).val)>>
                  \o unescapeFromShortOfEnd(str, i + 4)
         ELSE <<str[i]>> \o unescapeFromShortOfEnd(str, i + 1)

RECURSIVE unescapeFrom(_, _)
unescapeFrom(str, i) ==
    IF i > Len(str) THEN << >>
    ELSE IF str[i] = CH.bs /\ i + 3 <= Len(str)
                /\ ParseInt(SubSeq(str, i + 1, i + 3)).ok
         THEN <<Uint8(ParseInt(SubSeq(str, i + 1, i + 3)).val)>>
                  \o unescapeFrom(str, i + 4)
         ELSE <<str[i]>> \o unescapeFrom(str, i + 1)

unescapeString(str) == unescapeFrom(str, 1)

(***************************************************************************)
(* strings.Split(s, sep) for a one-byte separator: k separators give k+1   *)
(* fields, empty fields included.                                          *)
(***************************************************************************)
RECURSIVE SplitFrom(_, _, _, _)
SplitFrom(s, sep, i, cur) ==
    IF i > Len(s) THEN <<cur>>
    ELSE IF s[i] = sep THEN <<cur>> \o SplitFrom(s, sep, i + 1, << >>)
         ELSE SplitFrom(s, sep, i + 1, Append(cur, s[i]))

Split(s, sep) == SplitFrom(s, sep, 1, << >>)

(***************************************************************************)
(* parseMountInfoLine.  fields are indexed from 0 in the source, so the    *)
(* source's fields[k] is fields[k + 1] here.  The result is [ok, mnt];     *)
(* ok = FALSE is the nil return.                                           *)
(***************************************************************************)
MinFields == 10

FirstOptional == 6

NoMount == [Path |-> EmptyStr, FilesystemType |-> EmptyStr, Device |-> EmptyStr]

(* n == len(fields) - 4, which the comment of lines 94-95 warns against. *)
separatorIndexFromEnd(fields, n) == Len(fields) - 4

(* The loop of lines 96-102: the index of the separator, or -1. *)
RECURSIVE separatorIndex(_, _)
separatorIndex(fields, n) ==
    IF fields[n + 1] = <<CH.dash>> THEN n
    ELSE IF n + 1 >= Len(fields) THEN 0 - 1
         ELSE separatorIndex(fields, n + 1)

parseMountInfoLine(line) ==
    LET fields == Split(line, CH.sp)
        n      == separatorIndex(fields, FirstOptional)
    IN  IF Len(fields) < MinFields THEN [ok |-> FALSE, mnt |-> NoMount]
        ELSE IF n < 0 \/ n + 3 >= Len(fields)
             THEN [ok |-> FALSE, mnt |-> NoMount]
             ELSE [ok  |-> TRUE,
                   mnt |-> [Path           |-> unescapeString(fields[4 + 1]),
                            FilesystemType |-> unescapeString(fields[n + 1 + 1]),
                            Device         |-> unescapeString(fields[n + 2 + 1])]]

(***************************************************************************)
(* path/filepath on cleaned strings.                                       *)
(***************************************************************************)
RECURSIVE JoinWith(_, _)
JoinWith(parts, sep) ==
    IF parts = << >> THEN << >>
    ELSE IF Len(parts) = 1 THEN parts[1]
         ELSE parts[1] \o <<sep>> \o JoinWith(Tail(parts), sep)

(* The components of a rooted path after "." and ".." are resolved. *)
RECURSIVE cleanComponents(_, _)
cleanComponents(parts, acc) ==
    IF parts = << >> THEN acc
    ELSE LET h == Head(parts)
         IN  IF h = << >> \/ h = <<CH.dot>>
             THEN cleanComponents(Tail(parts), acc)
             ELSE IF h = <<CH.dot, CH.dot>>
                  THEN cleanComponents(Tail(parts),
                           IF acc = << >> THEN acc
                           ELSE SubSeq(acc, 1, Len(acc) - 1))
                  ELSE cleanComponents(Tail(parts), Append(acc, h))

(* filepath.Clean of a path that starts with a slash. *)
Clean(path) ==
    <<CH.sl>> \o JoinWith(cleanComponents(Split(path, CH.sl), << >>), CH.sl)

(* filepath.Join(dir, elem) for a rooted dir: empty elements are ignored. *)
Join(dir, elem) ==
    IF elem = << >> THEN Clean(dir) ELSE Clean(dir \o <<CH.sl>> \o elem)

(* The position of the last slash of path, 0 when it has none. *)
RECURSIVE lastSlash(_, _)
lastSlash(path, i) ==
    IF i = 0 THEN 0
    ELSE IF path[i] = CH.sl THEN i ELSE lastSlash(path, i - 1)

(* filepath.Base of a cleaned path. *)
Base(path) ==
    IF path = << >> THEN <<CH.dot>>
    ELSE IF path = <<CH.sl>> THEN path
         ELSE SubSeq(path, lastSlash(path, Len(path)) + 1, Len(path))

(* filepath.Dir of a cleaned path: "/" is its own parent. *)
Dir(path) ==
    LET i == lastSlash(path, Len(path))
    IN  IF i = 0 THEN <<CH.dot>>
        ELSE IF i = 1 THEN <<CH.sl>>
             ELSE SubSeq(path, 1, i - 1)

(***************************************************************************)
(* The host filesystem seen by canonicalizePath, isDir and isDevice.       *)
(***************************************************************************)
PathRoot == <<CH.sl>>
PathA    == <<CH.sl, CH.a>>
PathAB   == <<CH.sl, CH.a, CH.sl, CH.b>>
PathABC  == <<CH.sl, CH.a, CH.sl, CH.b, CH.sl, CH.c>>
PathF    == <<CH.sl, CH.f>>
PathN    == <<CH.sl, CH.n>>
DevD     == <<CH.sl, CH.d>>
DevE     == <<CH.sl, CH.e>>
DevG     == <<CH.sl, CH.g>>
LinkL    == <<CH.sl, CH.l>>
NameT    == <<CH.t>>

uuidToken == <<CH.U, CH.U, CH.I, CH.D>>

uuidDirectory ==
    <<CH.sl, CH.d, CH.e, CH.v, CH.sl, CH.d, CH.i, CH.s, CH.k, CH.sl,
      CH.b, CH.y, CH.dash, CH.u, CH.u, CH.i, CH.d>>

Directories == {PathRoot, PathA, PathAB, PathABC, uuidDirectory}

DeviceNodes == {DevD, DevE, DevG}

(* What ioutil.ReadDir(uuidDirectory) lists, sorted by name: a regular     *)
(* file, a symlink whose target is gone, and the UUIDs of /d (U and W) and *)
(* of /e (V).  /g has no UUID.                                             *)
uuidEntries ==
    << [name |-> <<CH.A>>, symlink |-> FALSE],
       [name |-> <<CH.B>>, symlink |-> TRUE],
       [name |-> <<CH.U>>, symlink |-> TRUE],
       [name |-> <<CH.V>>, symlink |-> TRUE],
       [name |-> <<CH.W>>, symlink |-> TRUE] >>

(* The path of an entry of the UUID directory. *)
uuidFile(name) == uuidDirectory \o <<CH.sl>> \o name

RegularFiles == {PathF, uuidFile(<<CH.A>>)}

(* Symbolic links and the canonical path each resolves to. *)
Symlinks ==
    { <<LinkL, DevD>>,
      <<uuidFile(<<CH.U>>), DevD>>,
      <<uuidFile(<<CH.V>>), DevE>>,
      <<uuidFile(<<CH.W>>), DevD>> }

canonicalizePath(path) ==
    IF path \in Directories \cup DeviceNodes \cup RegularFiles
    THEN [ok |-> TRUE, path |-> path]
    ELSE IF \E l \in Symlinks : l[1] = path
         THEN [ok |-> TRUE, path |-> (CHOOSE l \in Symlinks : l[1] = path)[2]]
         ELSE [ok |-> FALSE, path |-> EmptyStr]

isDir(path) == path \in Directories

isDevice(path) == path \in DeviceNodes

(***************************************************************************)
(* The records /proc/self/mountinfo can hold, as the kernel writes them.   *)
(***************************************************************************)
FsExt4  == <<CH.e, CH.x, CH.t, CH.d4>>
FsXfs   == <<CH.x, CH.f, CH.s>>
FsTmpfs == <<CH.t, CH.m, CH.p, CH.f, CH.s>>
Rw      == <<CH.r, CH.w>>
Shared1 == <<CH.s, CH.h, CH.colon, CH.d1>>

MountLine(id, mountpoint, optional, fstype, device) ==
    JoinWith(<< <<id>>, <<CH.d0>>, <<CH.d0, CH.colon, CH.d1>>, <<CH.sl>>,
                mountpoint, Rw >>
             \o optional
             \o << <<CH.dash>>, fstype, device, Rw >>, CH.sp)

LineText ==
    << MountLine(CH.d1, PathA, << >>, FsExt4, DevD),
       MountLine(CH.d2, PathA, <<Shared1>>, FsXfs, LinkL),
       MountLine(CH.d3, PathAB, << >>, FsExt4, DevD),
       MountLine(CH.d4, PathRoot, << >>, FsTmpfs, NameT),
       MountLine(CH.d7, PathF, << >>, FsExt4, DevE),
       JoinWith(<< <<CH.d7>>, <<CH.d0>>, PathA, Rw, <<CH.dash>>, FsExt4, DevD >>,
                CH.sp),
       MountLine(CH.d7, PathN, <<Shared1, Shared1>>, FsExt4, DevD),
       MountLine(CH.d7, PathAB, << >>, FsExt4, PathF),
       MountLine(CH.d7, PathABC, << >>, FsXfs, DevG) >>

LineIds == 1..Len(LineText)

(* The longest mount source the environment builds. *)
MaxLines == 2

(***************************************************************************)
(* Callers and their inputs.                                               *)
(***************************************************************************)
Procs == {1, 2}

PathInputs == {PathABC, PathA, PathN}

labelToken == <<CH.L, CH.A, CH.B, CH.E, CH.L>>

TokenInputs == {uuidToken, labelToken}

LinkInputs ==
    { uuidToken \o <<CH.eq, CH.U>>,
      uuidToken \o <<CH.eq, CH.V>>,
      uuidToken \o <<CH.eq, CH.U, CH.eq, CH.V>>,
      labelToken \o <<CH.eq, CH.U>>,
      uuidToken }

VARIABLES
    source,             \* /proc/self/mountinfo now: a sequence of line ids
    mountable,          \* the records the environment may add to the source
    mountsByPath,       \* map[string]*Mount
    mountsByDevice,     \* map[string][]*Mount
    mountsInitialized,  \* bool
    mountMutex,         \* 0 when unlocked, else the caller holding it
    pc,                 \* where each caller is
    op,                 \* the function each caller runs
    input,              \* the argument the caller passed
    path,               \* the caller's path / devicePath variable
    opened,             \* the caller has /proc/self/mountinfo open
    file,               \* the lines the caller's scanner holds
    pos,                \* the number of lines the scanner has delivered
    scanErr,            \* scanner.Err() # nil
    result,             \* what the call returns
    loads,              \* successful loads since the last invalidation
    resolved            \* the paths the call has passed to canonicalizePath

vars ==
    <<source, mountable, mountsByPath, mountsByDevice, mountsInitialized,
      mountMutex, pc, op, input, path, opened, file, pos, scanErr, result, loads,
      resolved>>

table == <<mountsByPath, mountsByDevice, mountsInitialized>>

locals == <<input, path, opened, file, pos, scanErr, resolved>>

EmptyMap == << >>

NoResult == [err |-> "", detail |-> EmptyStr, mounts |-> << >>]

Ok(mounts) == [err |-> "", detail |-> EmptyStr, mounts |-> mounts]

Failure(err, detail) == [err |-> err, detail |-> detail, mounts |-> << >>]

MaxLoads == 2

(* The mounts either index holds. *)
byPathMounts == {mountsByPath[k] : k \in DOMAIN mountsByPath}

byDeviceMounts ==
    UNION {{mountsByDevice[d][k] : k \in 1..Len(mountsByDevice[d])} :
              d \in DOMAIN mountsByDevice}

(* The state at process start: nothing loaded, no call in progress.  Only  *)
(* the callers in `callers` ever call; `records` is what the host mounts.  *)
InitWith(callers, records) ==
    /\ source = << >>
    /\ mountable = records
    /\ mountsByPath = EmptyMap
    /\ mountsByDevice = EmptyMap
    /\ mountsInitialized = FALSE
    /\ mountMutex = 0
    /\ pc = [p \in Procs |-> IF p \in callers THEN "idle" ELSE "off"]
    /\ op = [p \in Procs |-> "none"]
    /\ input = [p \in Procs |-> EmptyStr]
    /\ path = [p \in Procs |-> EmptyStr]
    /\ opened = [p \in Procs |-> FALSE]
    /\ file = [p \in Procs |-> << >>]
    /\ pos = [p \in Procs |-> 0]
    /\ scanErr = [p \in Procs |-> FALSE]
    /\ result = [p \in Procs |-> NoResult]
    /\ loads = 0
    /\ resolved = [p \in Procs |-> {}]

(* Concurrent callers on a host that mounts one filesystem. *)
Init == InitWith(Procs, {1})

(* One caller on a host with one of these families of filesystems. *)
Hosts == { {1, 2, 3}, {2, 4, 6}, {5, 7, 8} }

InitLoad == \E records \in Hosts : InitWith({1}, records)

(***************************************************************************)
(* The environment: filesystems are mounted (a record is appended, the     *)
(* kernel lists mounts in mount order) and unmounted.                      *)
(***************************************************************************)
RemoveAt(seq, i) == SubSeq(seq, 1, i - 1) \o SubSeq(seq, i + 1, Len(seq))

MountFs(l) ==
    /\ l \in mountable
    /\ Len(source) < MaxLines
    /\ source' = Append(source, l)
    /\ UNCHANGED <<mountable, table, mountMutex, pc, op, locals, result, loads>>

Umount(i) ==
    /\ i \in 1..Len(source)
    /\ source' = RemoveAt(source, i)
    /\ UNCHANGED <<mountable, table, mountMutex, pc, op, locals, result, loads>>

(***************************************************************************)
(* Entry of each function, up to its mountMutex.Lock().                    *)
(***************************************************************************)
Enter(p, name, arg) ==
    /\ pc[p] = "idle"
    /\ op' = [op EXCEPT ![p] = name]
    /\ input' = [input EXCEPT ![p] = arg]
    /\ UNCHANGED <<source, mountable, table, mountMutex, opened, file, pos,
                   scanErr, loads>>

AllFilesystemsCall(p) ==
    /\ Enter(p, "AllFilesystems", EmptyStr)
    /\ pc' = [pc EXCEPT ![p] = "lock"]
    /\ UNCHANGED <<path, result, resolved>>

UpdateMountInfoCall(p) ==
    /\ Enter(p, "UpdateMountInfo", EmptyStr)
    /\ pc' = [pc EXCEPT ![p] = "lock"]
    /\ UNCHANGED <<path, result, resolved>>

(* Lines 200-203 and 231-234: canonicalize the argument before locking. *)
CanonicalizeArg(p, name, arg) ==
    /\ Enter(p, name, arg)
    /\ resolved' = [resolved EXCEPT ![p] = {arg}]
    /\ IF canonicalizePath(arg).ok
       THEN /\ path' = [path EXCEPT ![p] = canonicalizePath(arg).path]
            /\ pc' = [pc EXCEPT ![p] = "lock"]
            /\ UNCHANGED result
       ELSE /\ result' = [result EXCEPT ![p] = Failure("canonicalize", arg)]
            /\ pc' = [pc EXCEPT ![p] = "done"]
            /\ UNCHANGED path

FindMountCall(p, arg) == CanonicalizeArg(p, "FindMount", arg)

GetMountCall(p, arg) == CanonicalizeArg(p, "GetMount", arg)

(* Lines 258-276: the error of the link, "" when it resolves to a device. *)
linkError(link) ==
    LET linkComponents == Split(link, CH.eq)
        token      == linkComponents[1]
        value      == linkComponents[2]
        searchPath == Join(uuidDirectory, value)
    IN  IF Len(linkComponents) # 2 THEN "format is invalid"
        ELSE IF token # uuidToken THEN "token type not supported"
        ELSE IF Base(searchPath) # value THEN "value is not a UUID"
        ELSE IF ~canonicalizePath(searchPath).ok THEN "no device with UUID"
        ELSE ""

linkDevice(link) ==
    canonicalizePath(Join(uuidDirectory, Split(link, CH.eq)[2])).path

(* A link that resolves the symlink of its value before looking at its    *)
(* token.                                                                  *)
linkResolvesBeforeToken(link) ==
    IF Len(Split(link, CH.eq)) # 2 THEN {}
    ELSE {Join(uuidDirectory, Split(link, CH.eq)[2])}

(* Lines 258-273: the paths the link makes the call canonicalize. *)
linkResolves(link) ==
    IF linkError(link) \in {"", "no device with UUID"}
    THEN {Join(uuidDirectory, Split(link, CH.eq)[2])}
    ELSE {}

getMountsFromLinkCall(p, link) ==
    /\ Enter(p, "getMountsFromLink", link)
    /\ resolved' = [resolved EXCEPT ![p] = linkResolves(link)]
    /\ IF linkError(link) = ""
       THEN /\ path' = [path EXCEPT ![p] = linkDevice(link)]
            /\ pc' = [pc EXCEPT ![p] = "lock"]
            /\ UNCHANGED result
       ELSE /\ result' = [result EXCEPT ![p] = Failure("ErrFollowLink", link)]
            /\ pc' = [pc EXCEPT ![p] = "done"]
            /\ UNCHANGED path

(***************************************************************************)
(* mountMutex.Lock(), and the deferred mountMutex.Unlock() of a return.    *)
(***************************************************************************)
(* Lock that does not wait for the holder to unlock. *)
LockNoWait(p) ==
    /\ pc[p] = "lock"
    /\ mountMutex' = p
    /\ pc' = [pc EXCEPT ![p] =
                 IF op[p] = "UpdateMountInfo" THEN "invalidate" ELSE "load"]
    /\ UNCHANGED <<source, mountable, table, op, locals, result, loads>>

Lock(p) ==
    /\ pc[p] = "lock"
    /\ mountMutex = 0
    /\ mountMutex' = p
    /\ pc' = [pc EXCEPT ![p] =
                 IF op[p] = "UpdateMountInfo" THEN "invalidate" ELSE "load"]
    /\ UNCHANGED <<source, mountable, table, op, locals, result, loads>>

(* return r, running the deferred Unlock. *)
ReturnUnlock(p, r) ==
    /\ result' = [result EXCEPT ![p] = r]
    /\ pc' = [pc EXCEPT ![p] = "done"]
    /\ mountMutex' = 0

(* Line 189. *)
Invalidate(p) ==
    /\ pc[p] = "invalidate"
    /\ mountsInitialized' = FALSE
    /\ loads' = 0
    /\ pc' = [pc EXCEPT ![p] = "load"]
    /\ UNCHANGED <<source, mountable, mountsByPath, mountsByDevice, mountMutex,
                   op, locals, result>>

(***************************************************************************)
(* loadMountInfo.                                                          *)
(***************************************************************************)
(* loadMountInfo without the early return of lines 117-119. *)
LoadCheckAlways(p) ==
    /\ pc[p] = "load"
    /\ mountsByPath' = EmptyMap
    /\ mountsByDevice' = EmptyMap
    /\ pc' = [pc EXCEPT ![p] = "open"]
    /\ UNCHANGED <<source, mountable, mountsInitialized, mountMutex, op, locals,
                   result, loads>>

(* Lines 117-121. *)
LoadCheck(p) ==
    /\ pc[p] = "load"
    /\ IF mountsInitialized
       THEN /\ pc' = [pc EXCEPT ![p] = "read"]
            /\ UNCHANGED <<mountsByPath, mountsByDevice>>
       ELSE /\ mountsByPath' = EmptyMap
            /\ mountsByDevice' = EmptyMap
            /\ pc' = [pc EXCEPT ![p] = "open"]
    /\ UNCHANGED <<source, mountable, mountsInitialized, mountMutex, op, locals,
                   result, loads>>

(* A failed open that leaves the emptied table marked as loaded. *)
OpenFailInstalls(p) ==
    /\ pc[p] = "open"
    /\ mountsInitialized' = TRUE
    /\ ReturnUnlock(p, Failure("open", EmptyStr))
    /\ UNCHANGED <<source, mountable, mountsByPath, mountsByDevice, op, locals,
                   loads>>

(* The return of line 125 without the deferred Unlock. *)
OpenFailKeepsLock(p) ==
    /\ pc[p] = "open"
    /\ result' = [result EXCEPT ![p] = Failure("open", EmptyStr)]
    /\ pc' = [pc EXCEPT ![p] = "done"]
    /\ UNCHANGED <<source, mountable, table, mountMutex, op, locals, loads>>

(* Lines 123-126: os.Open fails and the error is returned. *)
OpenFail(p) ==
    /\ pc[p] = "open"
    /\ ReturnUnlock(p, Failure("open", EmptyStr))
    /\ UNCHANGED <<source, mountable, table, op, locals, loads>>

(* Lines 123-128: os.Open succeeds. *)
OpenOk(p) ==
    /\ pc[p] = "open"
    /\ opened' = [opened EXCEPT ![p] = TRUE]
    /\ file' = [file EXCEPT ![p] = source]
    /\ pos' = [pos EXCEPT ![p] = 0]
    /\ pc' = [pc EXCEPT ![p] = "scan"]
    /\ UNCHANGED <<source, mountable, table, mountMutex, op, input, path,
                   scanErr, result, loads, resolved>>

(* The else branch of line 159 forgotten: a Device that is no device node  *)
(* keeps the string of the mountinfo line.                                 *)
canonicalDeviceKeepsRaw(device) ==
    IF canonicalizePath(device).ok THEN canonicalizePath(device).path
    ELSE device

(* Lines 154-160: the Device the record ends up with. *)
canonicalDevice(device) ==
    IF canonicalizePath(device).ok /\ isDevice(canonicalizePath(device).path)
    THEN canonicalizePath(device).path
    ELSE EmptyStr

(* Lines 131-147: the record of a line is kept. *)
accepted(line) ==
    /\ parseMountInfoLine(line).ok
    /\ canonicalizePath(parseMountInfoLine(line).mnt.Path).ok
    /\ isDir(canonicalizePath(parseMountInfoLine(line).mnt.Path).path)

(* The Mount a kept line leaves behind; addr tells the allocations of line *)
(* 107 apart.                                                              *)
mountOf(line, addr) ==
    [addr           |-> addr,
     Path           |-> canonicalizePath(parseMountInfoLine(line).mnt.Path).path,
     FilesystemType |-> parseMountInfoLine(line).mnt.FilesystemType,
     Device         |-> canonicalDevice(parseMountInfoLine(line).mnt.Device)]

(* The first record of a mountpoint wins. *)
insertByPathKeepFirst(byPath, mnt) == byPath @@ (mnt.Path :> mnt)

(* Line 152. *)
insertByPath(byPath, mnt) == (mnt.Path :> mnt) @@ byPath

(* The list of a device is assigned, not appended to. *)
appendByDeviceOverwrites(byDevice, mnt) ==
    IF mnt.Device = EmptyStr THEN byDevice
    ELSE (mnt.Device :> <<mnt>>) @@ byDevice

(* Lines 156-157. *)
appendByDevice(byDevice, mnt) ==
    IF mnt.Device = EmptyStr THEN byDevice
    ELSE (mnt.Device :>
             Append(IF mnt.Device \in DOMAIN byDevice
                    THEN byDevice[mnt.Device] ELSE << >>, mnt)) @@ byDevice

(* Lines 139 and 154: the paths one iteration passes to canonicalizePath. *)
lineResolves(line) ==
    IF ~parseMountInfoLine(line).ok THEN {}
    ELSE {parseMountInfoLine(line).mnt.Path}
             \cup (IF accepted(line) THEN {parseMountInfoLine(line).mnt.Device}
                   ELSE {})

(* <<F(1), ..., F(n)>> *)
RECURSIVE Tabulate(_, _)
Tabulate(F(_), n) == IF n = 0 THEN << >> ELSE Append(Tabulate(F, n - 1), F(n))

(* What the loop body makes of each record of LineText, worked out once:   *)
(* whether it is kept, the Mount it leaves (addr to be filled in) and the  *)
(* paths it canonicalizes.                                                 *)
LineKept == Tabulate(LAMBDA l : accepted(LineText[l]), Len(LineText))

LineMount == Tabulate(LAMBDA l : mountOf(LineText[l], 0), Len(LineText))

LineResolves == Tabulate(LAMBDA l : lineResolves(LineText[l]), Len(LineText))

(* The scan loop with break where lines 134, 141 and 146 say continue. *)
ScanLineBreaks(p) ==
    /\ pc[p] = "scan"
    /\ pos[p] < Len(file[p])
    /\ pos' = [pos EXCEPT ![p] = pos[p] + 1]
    /\ LET l   == file[p][pos[p] + 1]
           mnt == [LineMount[l] EXCEPT !.addr = pos[p] + 1]
       IN  IF LineKept[l]
           THEN /\ mountsByPath' = (mnt.Path :> mnt) @@ mountsByPath
                /\ mountsByDevice' =
                       IF mnt.Device = EmptyStr THEN mountsByDevice
                       ELSE (mnt.Device :>
                                Append(IF mnt.Device \in DOMAIN mountsByDevice
                                       THEN mountsByDevice[mnt.Device]
                                       ELSE << >>, mnt)) @@ mountsByDevice
                /\ UNCHANGED <<mountsInitialized, pc, loads>>
           ELSE /\ mountsInitialized' = TRUE
                /\ loads' = IF loads < MaxLoads THEN loads + 1 ELSE loads
                /\ pc' = [pc EXCEPT ![p] = "read"]
                /\ UNCHANGED <<mountsByPath, mountsByDevice>>
    /\ resolved' = [resolved EXCEPT ![p] =
                       resolved[p] \cup LineResolves[file[p][pos[p] + 1]]]
    /\ UNCHANGED <<source, mountable, mountMutex, op, input, path, opened, file,
                   scanErr, result>>

(* Lines 129-161: one iteration of the scan loop. *)
ScanLine(p) ==
    /\ pc[p] = "scan"
    /\ pos[p] < Len(file[p])
    /\ pos' = [pos EXCEPT ![p] = pos[p] + 1]
    /\ LET l   == file[p][pos[p] + 1]
           mnt == [LineMount[l] EXCEPT !.addr = pos[p] + 1]
       IN  IF LineKept[l]
           THEN /\ mountsByPath' = insertByPath(mountsByPath, mnt)
                /\ mountsByDevice' = appendByDevice(mountsByDevice, mnt)
           ELSE UNCHANGED <<mountsByPath, mountsByDevice>>
    /\ resolved' = [resolved EXCEPT ![p] =
                       resolved[p] \cup LineResolves[file[p][pos[p] + 1]]]
    /\ UNCHANGED <<source, mountable, mountsInitialized, mountMutex, pc, op,
                   input, path, opened, file, scanErr, result, loads>>

(* Lines 162-163, reached when scanner.Scan() returns false. *)
finishLoad(p) ==
    /\ mountsInitialized' = TRUE
    /\ loads' = IF loads < MaxLoads THEN loads + 1 ELSE loads
    /\ pc' = [pc EXCEPT ![p] = "read"]
    /\ UNCHANGED <<source, mountable, mountsByPath, mountsByDevice, mountMutex,
                   op, input, path, opened, file, pos, result, resolved>>

(* scanner.Scan() returns false at the end of the file. *)
ScanEOF(p) ==
    /\ pc[p] = "scan"
    /\ pos[p] = Len(file[p])
    /\ UNCHANGED scanErr
    /\ finishLoad(p)

(* scanner.Scan() returns false on a read error; scanner.Err() is not read. *)
ScanReadError(p) ==
    /\ pc[p] = "scan"
    /\ scanErr' = [scanErr EXCEPT ![p] = TRUE]
    /\ finishLoad(p)

(***************************************************************************)
(* The index reads of each function, under the lock, after loadMountInfo   *)
(* returned nil.                                                           *)
(***************************************************************************)
(* PathSorter: byte-wise order of Path. *)
RECURSIVE lessString(_, _)
lessString(a, b) ==
    IF a = << >> THEN b # << >>
    ELSE IF b = << >> THEN FALSE
    ELSE IF a[1] # b[1] THEN a[1] < b[1]
    ELSE lessString(Tail(a), Tail(b))

RECURSIVE sortByPath(_)
sortByPath(mounts) ==
    IF mounts = {} THEN << >>
    ELSE LET first == CHOOSE m \in mounts :
                          \A o \in mounts : ~lessString(o.Path, m.Path)
         IN  <<first>> \o sortByPath(mounts \ {first})

(* Lines 175-181. *)
AllFilesystemsRead(p) ==
    /\ pc[p] = "read"
    /\ op[p] = "AllFilesystems"
    /\ ReturnUnlock(p, Ok(sortByPath({mountsByPath[k] : k \in DOMAIN mountsByPath})))
    /\ UNCHANGED <<source, mountable, table, op, locals, loads>>

(* Line 190: loadMountInfo returned nil. *)
UpdateMountInfoReturn(p) ==
    /\ pc[p] = "read"
    /\ op[p] = "UpdateMountInfo"
    /\ ReturnUnlock(p, Ok(<< >>))
    /\ UNCHANGED <<source, mountable, table, op, locals, loads>>

(* FindMount that looks up the path itself and never its parents. *)
FindMountNoWalk(p) ==
    /\ pc[p] = "read"
    /\ op[p] = "FindMount"
    /\ ReturnUnlock(p, IF path[p] \in DOMAIN mountsByPath
                       THEN Ok(<<mountsByPath[path[p]]>>)
                       ELSE Failure("ErrNotAMountpoint", path[p]))
    /\ UNCHANGED <<source, mountable, table, op, locals, loads>>

(* Lines 212-223: one iteration of the walk up the directory tree. *)
FindMountWalk(p) ==
    /\ pc[p] = "read"
    /\ op[p] = "FindMount"
    /\ IF path[p] \in DOMAIN mountsByPath
       THEN /\ ReturnUnlock(p, Ok(<<mountsByPath[path[p]]>>))
            /\ UNCHANGED path
       ELSE IF Dir(path[p]) = path[p]
            THEN /\ ReturnUnlock(p, Failure("ErrNotAMountpoint", path[p]))
                 /\ UNCHANGED path
            ELSE /\ path' = [path EXCEPT ![p] = Dir(path[p])]
                 /\ UNCHANGED <<result, pc, mountMutex>>
    /\ UNCHANGED <<source, mountable, table, op, input, opened, file, pos,
                   scanErr, loads, resolved>>

(* Lines 242-246. *)
GetMountRead(p) ==
    /\ pc[p] = "read"
    /\ op[p] = "GetMount"
    /\ ReturnUnlock(p, IF path[p] \in DOMAIN mountsByPath
                       THEN Ok(<<mountsByPath[path[p]]>>)
                       ELSE Failure("ErrNotAMountpoint", path[p]))
    /\ UNCHANGED <<source, mountable, table, op, locals, loads>>

(* The lookup of line 284 without its ok: a device with no mounts gives a  *)
(* nil list and no error.                                                  *)
getMountsFromLinkReadIgnoresOk(p) ==
    /\ pc[p] = "read"
    /\ op[p] = "getMountsFromLink"
    /\ ReturnUnlock(p, Ok(IF path[p] \in DOMAIN mountsByDevice
                          THEN mountsByDevice[path[p]] ELSE << >>))
    /\ UNCHANGED <<source, mountable, table, op, locals, loads>>

(* Lines 284-288. *)
getMountsFromLinkRead(p) ==
    /\ pc[p] = "read"
    /\ op[p] = "getMountsFromLink"
    /\ ReturnUnlock(p, IF path[p] \in DOMAIN mountsByDevice
                       THEN Ok(mountsByDevice[path[p]])
                       ELSE Failure("ErrFollowLink", path[p]))
    /\ UNCHANGED <<source, mountable, table, op, locals, loads>>

(***************************************************************************)
(* makeLink.  It takes no lock and reads only its Mount and the UUID       *)
(* directory.  Its result is [res, resolved]: what it returns (the link in *)
(* detail) and the paths it handed to canonicalizePath.                    *)
(***************************************************************************)
Link(link) == [err |-> "", detail |-> link, mounts |-> << >>]

LinkOf(uuid) == uuidToken \o <<CH.eq>> \o uuid

(* The loop with return where lines 308 and 314 say continue. *)
RECURSIVE makeLinkFromStopsAtBadEntry(_, _, _)
makeLinkFromStopsAtBadEntry(mnt, k, seen) ==
    IF k > Len(uuidEntries)
    THEN [res |-> Failure("ErrMakeLink: no UUID", mnt.Device), resolved |-> seen]
    ELSE LET uuid == uuidEntries[k].name
             file_ == Join(uuidDirectory, uuid)
         IN  IF ~uuidEntries[k].symlink
             THEN [res |-> Failure("ErrMakeLink: no UUID", mnt.Device),
                   resolved |-> seen]
             ELSE IF ~canonicalizePath(file_).ok
                  THEN [res |-> Failure("ErrMakeLink: no UUID", mnt.Device),
                        resolved |-> seen \cup {file_}]
                  ELSE IF mnt.Device = canonicalizePath(file_).path
                       THEN [res |-> Link(LinkOf(uuid)),
                             resolved |-> seen \cup {file_}]
                       ELSE makeLinkFromStopsAtBadEntry(mnt, k + 1,
                                                        seen \cup {file_})

(* The loop without the comparison of line 316: the first symlink that    *)
(* resolves is taken for the mount's device.                               *)
RECURSIVE makeLinkFromAnyDevice(_, _, _)
makeLinkFromAnyDevice(mnt, k, seen) ==
    IF k > Len(uuidEntries)
    THEN [res |-> Failure("ErrMakeLink: no UUID", mnt.Device), resolved |-> seen]
    ELSE LET uuid == uuidEntries[k].name
             file_ == Join(uuidDirectory, uuid)
         IN  IF ~uuidEntries[k].symlink
             THEN makeLinkFromAnyDevice(mnt, k + 1, seen)
             ELSE IF ~canonicalizePath(file_).ok
                  THEN makeLinkFromAnyDevice(mnt, k + 1, seen \cup {file_})
                  ELSE [res |-> Link(LinkOf(uuid)), resolved |-> seen \cup {file_}]

(* Lines 306-320: the loop from entry k on. *)
RECURSIVE makeLinkFrom(_, _, _)
makeLinkFrom(mnt, k, seen) ==
    IF k > Len(uuidEntries)
    THEN [res |-> Failure("ErrMakeLink: no UUID", mnt.Device), resolved |-> seen]
    ELSE LET uuid == uuidEntries[k].name
             file_ == Join(uuidDirectory, uuid)
         IN  IF ~uuidEntries[k].symlink
             THEN makeLinkFrom(mnt, k + 1, seen)
             ELSE IF ~canonicalizePath(file_).ok
                  THEN makeLinkFrom(mnt, k + 1, seen \cup {file_})
                  ELSE IF mnt.Device = canonicalizePath(file_).path
                       THEN [res |-> Link(LinkOf(uuid)),
                             resolved |-> seen \cup {file_}]
                       ELSE makeLinkFrom(mnt, k + 1, seen \cup {file_})

(* Lines 294-321; dirOk: ioutil.ReadDir succeeded. *)
makeLink(mnt, token, dirOk) ==
    IF token # uuidToken
    THEN [res |-> Failure("ErrMakeLink: token type not supported", token),
          resolved |-> {}]
    ELSE IF mnt.Device = EmptyStr
         THEN [res |-> Failure("ErrMakeLink: no device for mount", mnt.Path),
               resolved |-> {}]
         ELSE IF ~dirOk
              THEN [res |-> Failure("ErrMakeLink: ReadDir", EmptyStr),
                    resolved |-> {}]
              ELSE makeLinkFrom(mnt, 1, {})

makeLinkCall(p, mnt, token) ==
    /\ pc[p] = "idle"
    /\ op' = [op EXCEPT ![p] = "makeLink"]
    /\ input' = [input EXCEPT ![p] = [mnt |-> mnt, token |-> token]]
    /\ \E dirOk \in BOOLEAN :
          /\ result' = [result EXCEPT ![p] = makeLink(mnt, token, dirOk).res]
          /\ resolved' = [resolved EXCEPT ![p] =
                              makeLink(mnt, token, dirOk).resolved]
    /\ pc' = [pc EXCEPT ![p] = "done"]
    /\ UNCHANGED <<source, mountable, table, mountMutex, path, opened, file,
                   pos, scanErr, loads>>

(* The caller takes the result; its next call starts afresh. *)
Return(p) ==
    /\ pc[p] = "done"
    /\ pc' = [pc EXCEPT ![p] = "idle"]
    /\ op' = [op EXCEPT ![p] = "none"]
    /\ input' = [input EXCEPT ![p] = EmptyStr]
    /\ path' = [path EXCEPT ![p] = EmptyStr]
    /\ opened' = [opened EXCEPT ![p] = FALSE]
    /\ file' = [file EXCEPT ![p] = << >>]
    /\ pos' = [pos EXCEPT ![p] = 0]
    /\ scanErr' = [scanErr EXCEPT ![p] = FALSE]
    /\ result' = [result EXCEPT ![p] = NoResult]
    /\ resolved' = [resolved EXCEPT ![p] = {}]
    /\ UNCHANGED <<source, mountable, table, mountMutex, loads>>

Next ==
    \/ \E l \in LineIds : MountFs(l)
    \/ \E i \in 1..MaxLines : Umount(i)
    \/ \E p \in Procs :
          \/ AllFilesystemsCall(p)
          \/ UpdateMountInfoCall(p)
          \/ \E arg \in PathInputs : FindMountCall(p, arg)
          \/ \E arg \in PathInputs : GetMountCall(p, arg)
          \/ \E link \in LinkInputs : getMountsFromLinkCall(p, link)
          \/ Lock(p)
          \/ Invalidate(p)
          \/ LoadCheck(p)
          \/ OpenFail(p)
          \/ OpenOk(p)
          \/ ScanLine(p)
          \/ ScanEOF(p)
          \/ ScanReadError(p)
          \/ AllFilesystemsRead(p)
          \/ UpdateMountInfoReturn(p)
          \/ FindMountWalk(p)
          \/ GetMountRead(p)
          \/ getMountsFromLinkRead(p)
          \/ Return(p)

Spec == Init /\ [][Next]_vars

SpecLoad == InitLoad /\ [][Next]_vars

(* One caller that also makes links for the mounts of the table. *)
HostsLink == { {1, 3, 4}, {1, 2, 9} }

InitLink == \E records \in HostsLink : InitWith({1}, records)

NextLink ==
    \/ Next
    \/ \E p \in Procs :
          \E mnt \in byPathMounts \cup byDeviceMounts :
             \E token \in TokenInputs : makeLinkCall(p, mnt, token)

SpecLink == InitLink /\ [][NextLink]_vars

(***************************************************************************)
(* Calls started together, one for each caller, under a fair scheduler: a  *)
(* caller that can take a step of its call eventually takes one.  The      *)
(* callers are not obliged to call, nor the host to mount anything.        *)
(***************************************************************************)
CallerStep(p) ==
    \/ Lock(p)
    \/ Invalidate(p)
    \/ LoadCheck(p)
    \/ OpenFail(p)
    \/ OpenOk(p)
    \/ ScanLine(p)
    \/ ScanEOF(p)
    \/ ScanReadError(p)
    \/ AllFilesystemsRead(p)
    \/ UpdateMountInfoReturn(p)
    \/ FindMountWalk(p)
    \/ GetMountRead(p)
    \/ getMountsFromLinkRead(p)

NextFair ==
    \/ \E l \in LineIds : MountFs(l)
    \/ \E i \in 1..MaxLines : Umount(i)
    \/ \E p \in Procs :
          \/ AllFilesystemsCall(p)
          \/ UpdateMountInfoCall(p)
          \/ \E arg \in PathInputs : FindMountCall(p, arg)
          \/ \E arg \in PathInputs : GetMountCall(p, arg)
          \/ \E link \in LinkInputs : getMountsFromLinkCall(p, link)
          \/ CallerStep(p)

SpecFair ==
    /\ Init
    /\ [][NextFair]_vars
    /\ \A p \in Procs : WF_vars(CallerStep(p))

(***************************************************************************)
(* The line parser on its own: one caller applies unescapeString or        *)
(* parseMountInfoLine to one argument.                                     *)
(***************************************************************************)
(* The longest byte string handed to the kernel or to unescapeString. *)
MaxStr == 4

(* The most fields a line has after its first four. *)
MaxFree == 8

(* Tab, newline, space, '+', '0', '2', '4', backslash and a byte that is   *)
(* no UTF-8.                                                               *)
Bytes == {9, 10, CH.sp, CH.plus, CH.d0, CH.d2, CH.d4, CH.bs, 255}

(* The sequences over S of length at most n. *)
RECURSIVE SeqsUpTo(_, _)
SeqsUpTo(S, n) ==
    IF n = 0 THEN {<< >>}
    ELSE LET shorter == SeqsUpTo(S, n - 1)
         IN  shorter \cup {Append(q, x) : q \in shorter, x \in S}

StringInputs == SeqsUpTo(Bytes, MaxStr)

(* The fields a line is built from: the separator, a plain field and a     *)
(* field with an escaped space.                                            *)
FieldInputs ==
    { <<CH.dash>>, <<CH.sl, CH.a>>, <<CH.sl, CH.bs, CH.d0, CH.d4, CH.d0>> }

(* Mount ID, parent ID, major:minor and root, then up to MaxFree fields;   *)
(* and the empty line.                                                     *)
LineInputs ==
    {EmptyStr}
        \cup {JoinWith(<< <<CH.d1>>, <<CH.d0>>, <<CH.d0, CH.colon, CH.d1>>,
                          <<CH.sl>> >> \o rest, CH.sp) :
                 rest \in SeqsUpTo(FieldInputs, MaxFree)}

(* mangle() of the kernel's seq_file: space, tab, newline and backslash    *)
(* are written as a backslash and three octal digits.                      *)
RECURSIVE kernelEscape(_)
kernelEscape(str) ==
    IF str = << >> THEN << >>
    ELSE LET b == Head(str)
         IN  (IF b \in {CH.sp, 9, 10, CH.bs}
              THEN <<CH.bs, 48 + (b \div 64), 48 + ((b \div 8) % 8), 48 + (b % 8)>>
              ELSE <<b>>) \o kernelEscape(Tail(str))

Text(str) == [err |-> "", detail |-> str, mounts |-> << >>]

(* The caller's state: about to run `name` on arg, at step `at`. *)
InitCall(name, arg, str, at) ==
    /\ source = << >>
    /\ mountable = {}
    /\ mountsByPath = EmptyMap
    /\ mountsByDevice = EmptyMap
    /\ mountsInitialized = FALSE
    /\ mountMutex = 0
    /\ pc = [p \in Procs |-> IF p = 1 THEN at ELSE "off"]
    /\ op = [p \in Procs |-> IF p = 1 THEN name ELSE "none"]
    /\ input = [p \in Procs |-> IF p = 1 THEN arg ELSE EmptyStr]
    /\ path = [p \in Procs |-> IF p = 1 THEN str ELSE EmptyStr]
    /\ opened = [p \in Procs |-> FALSE]
    /\ file = [p \in Procs |-> << >>]
    /\ pos = [p \in Procs |-> 0]
    /\ scanErr = [p \in Procs |-> FALSE]
    /\ result = [p \in Procs |-> NoResult]
    /\ loads = 0
    /\ resolved = [p \in Procs |-> {}]

(* A byte string the kernel is about to write into a mountinfo field, a    *)
(* string handed to unescapeString as it is, or a line handed to           *)
(* parseMountInfoLine.                                                     *)
InitParse ==
    \/ \E str \in StringInputs : InitCall("unescapeString", str, EmptyStr, "kernel")
    \/ \E str \in StringInputs : InitCall("unescapeString", str, str, "call")
    \/ \E line \in LineInputs :
          InitCall("parseMountInfoLine", line, EmptyStr, "call")

(* The kernel writes the field. *)
KernelEscape(p) ==
    /\ pc[p] = "kernel"
    /\ path' = [path EXCEPT ![p] = kernelEscape(input[p])]
    /\ pc' = [pc EXCEPT ![p] = "call"]
    /\ UNCHANGED <<source, mountable, table, mountMutex, op, input, opened,
                   file, pos, scanErr, result, loads, resolved>>

(* Lines 57-70, applied to the field in path. *)
unescapeStringCall(p) ==
    /\ pc[p] = "call"
    /\ op[p] = "unescapeString"
    /\ result' = [result EXCEPT ![p] = Text(unescapeString(path[p]))]
    /\ pc' = [pc EXCEPT ![p] = "done"]
    /\ UNCHANGED <<source, mountable, table, mountMutex, op, locals, loads>>

(* Lines 88-112, applied to the line in input. *)
parseMountInfoLineCall(p) ==
    /\ pc[p] = "call"
    /\ op[p] = "parseMountInfoLine"
    /\ result' = [result EXCEPT ![p] =
                      IF parseMountInfoLine(input[p]).ok
                      THEN Ok(<<parseMountInfoLine(input[p]).mnt>>)
                      ELSE Failure("nil", EmptyStr)]
    /\ pc' = [pc EXCEPT ![p] = "done"]
    /\ UNCHANGED <<source, mountable, table, mountMutex, op, locals, loads>>

NextParse ==
    \E p \in Procs :
        \/ KernelEscape(p)
        \/ unescapeStringCall(p)
        \/ parseMountInfoLineCall(p)

SpecParse == InitParse /\ [][NextParse]_vars

(***************************************************************************)
(* Properties.                                                             *)
(***************************************************************************)
Queries == {"AllFilesystems", "FindMount", "GetMount", "getMountsFromLink"}

(* Where a caller is between Lock and the deferred Unlock. *)
InLock == {"invalidate", "load", "open", "scan", "read"}

(* A step that changes the table while it is initialized is line 189 of an *)
(* UpdateMountInfo call and changes nothing but the flag.                  *)
InvalidationOnly ==
    mountsInitialized /\ table' # table
        => /\ ~mountsInitialized'
           /\ UNCHANGED <<mountsByPath, mountsByDevice>>
           /\ \E p \in Procs : /\ op[p] = "UpdateMountInfo"
                               /\ pc[p] = "invalidate"
                               /\ pc'[p] = "load"

(* While the table is initialized no caller opens or scans the source. *)
NoRescan ==
    mountsInitialized
        => \A p \in Procs : pc'[p] \notin {"open", "scan"}

(* C1: once loaded, queries answer from the cached indexes: no step of a   *)
(* query changes mountsByPath, mountsByDevice or mountsInitialized or      *)
(* scans the source again, whatever the source has become; only the        *)
(* invalidation of UpdateMountInfo lets a new scan happen, so at most one  *)
(* load succeeds between two invalidations.                                *)
C1_CachedUntilInvalidated ==
    [][InvalidationOnly /\ NoRescan /\ loads' <= 1]_vars

(* A query has answered with a mount that the source no longer lists. *)
C1_Witness ==
    \E p \in Procs :
        /\ pc[p] = "done"
        /\ op[p] \in Queries
        /\ result[p].err = ""
        /\ result[p].mounts # << >>
        /\ source = << >>
        /\ mountsInitialized

(* C3: at most one caller is between Lock and Unlock, it holds the mutex,  *)
(* nobody reads an index while another caller rebuilds the table, and      *)
(* every index read sees the initialized flag set by a finished load.      *)
C3_MutualExclusion ==
    /\ Cardinality({p \in Procs : pc[p] \in InLock}) <= 1
    /\ \A p \in Procs : pc[p] \in InLock => mountMutex = p
    /\ \A p \in Procs :
          pc[p] = "read"
              => /\ mountsInitialized
                 /\ \A q \in Procs : pc[q] \notin {"invalidate", "load", "open", "scan"}

(* One caller is in the middle of a rebuild while another waits to query. *)
C3_Witness ==
    \E p, q \in Procs :
        /\ pc[p] = "scan"
        /\ pos[p] = 1
        /\ Len(file[p]) = 2
        /\ op[p] = "UpdateMountInfo"
        /\ pc[q] = "lock"
        /\ op[q] \in Queries

(***************************************************************************)
(* What a caller that ran the scan has been given: the records of the      *)
(* first pos lines of its file that the loop kept.                         *)
(***************************************************************************)
lineAt(p, i) == LineText[file[p][i]]

LineDevice ==
    Tabulate(LAMBDA l : parseMountInfoLine(LineText[l]).mnt.Device, Len(LineText))

keptLines(p, n) == {i \in 1..n : LineKept[file[p][i]]}

keptMount(p, i) == [LineMount[file[p][i]] EXCEPT !.addr = i]

Max(S) == CHOOSE x \in S : \A y \in S : y <= x

(* The caller opened the source in this call and its scan has ended. *)
HasLoaded(p) == opened[p] /\ pc[p] \in {"read", "done"}

(* C4: when os.Open fails the call returns that error with the mutex       *)
(* released and the table stays uninitialized; a caller reaches the index  *)
(* reads only with the table initialized; and a load that finds the table  *)
(* uninitialized goes on to open the source again.                         *)
C4_OpenFailure ==
    [][\A p \in Procs :
          /\ pc[p] = "open" /\ pc'[p] = "done"
                => /\ result'[p] = Failure("open", EmptyStr)
                   /\ ~mountsInitialized'
                   /\ mountMutex' = 0
          /\ pc'[p] = "read" => mountsInitialized'
          /\ pc[p] = "load" /\ ~mountsInitialized /\ pc'[p] # "load"
                => pc'[p] = "open"]_vars

(* A refresh of a loaded, non-empty table has failed to open the source. *)
C4_Witness ==
    \E p \in Procs :
        /\ pc[p] = "done"
        /\ op[p] = "UpdateMountInfo"
        /\ result[p].err = "open"
        /\ source # << >>
        /\ ~mountsInitialized
        /\ mountsByPath = EmptyMap

(* C5: a read error partway through the scan makes the call fail and      *)
(* never leaves the table initialized over the records of a prefix of the  *)
(* source.  (The code does not do this: scanner.Err() is never read.)      *)
C5_ReadErrorFailsLoad ==
    \A p \in Procs :
        scanErr[p] /\ pos[p] < Len(file[p])
            => /\ ~mountsInitialized
               /\ pc[p] = "done" => result[p].err # ""

(* C2: when UpdateMountInfo has returned nil, the indexes are those of the *)
(* whole source it opened: every kept record of the source is there, last  *)
(* record of a path in mountsByPath, and nothing else.  (Fails when the    *)
(* scan stopped early on a read error, see C5.)                            *)
C2_RefreshIsFullLoad ==
    \A p \in Procs :
        pc[p] = "done" /\ op[p] = "UpdateMountInfo" /\ result[p].err = ""
            => LET n == Len(file[p])
               IN  /\ DOMAIN mountsByPath =
                          {keptMount(p, i).Path : i \in keptLines(p, n)}
                   /\ \A i \in keptLines(p, n) :
                          /\ mountsByPath[keptMount(p, i).Path].addr >= i
                          /\ keptMount(p, i).Device # EmptyStr
                                => \E k \in 1..Len(mountsByDevice[keptMount(p, i).Device]) :
                                       mountsByDevice[keptMount(p, i).Device][k]
                                           = keptMount(p, i)
                   /\ \A m \in byPathMounts \cup byDeviceMounts :
                          m.addr \in keptLines(p, n) /\ m = keptMount(p, m.addr)

(* C6: after a load mountsByPath has a key exactly for the canonical paths *)
(* of the records the scan kept, and the Mount under a path is the one of  *)
(* the last kept record with that path.                                    *)
C6_LastRecordOfPathWins ==
    \A p \in Procs :
        HasLoaded(p)
            => LET kept == keptLines(p, pos[p])
               IN  /\ DOMAIN mountsByPath = {keptMount(p, i).Path : i \in kept}
                   /\ \A k \in DOMAIN mountsByPath :
                          mountsByPath[k] =
                              keptMount(p, Max({i \in kept : keptMount(p, i).Path = k}))

(* Two kept records of one mountpoint with different contents were scanned. *)
C6_Witness ==
    \E p \in Procs :
        /\ HasLoaded(p)
        /\ pos[p] = 2
        /\ keptLines(p, 2) = {1, 2}
        /\ keptMount(p, 1).Path = keptMount(p, 2).Path
        /\ keptMount(p, 1).FilesystemType # keptMount(p, 2).FilesystemType

(* The kept records with device d among the first n lines, in scan order. *)
RECURSIVE keptOnDevice(_, _, _)
keptOnDevice(p, n, d) ==
    IF n = 0 THEN << >>
    ELSE IF n \in keptLines(p, n) /\ keptMount(p, n).Device = d
         THEN Append(keptOnDevice(p, n - 1, d), keptMount(p, n))
         ELSE keptOnDevice(p, n - 1, d)

(* C7: after a load mountsByDevice has a key exactly for the device nodes  *)
(* some kept record resolved to, and the list under a device holds each    *)
(* kept record of that device once, in scan order.                         *)
C7_DeviceListInScanOrder ==
    \A p \in Procs :
        HasLoaded(p)
            => /\ \A d \in DOMAIN mountsByDevice :
                      /\ isDevice(d)
                      /\ mountsByDevice[d] = keptOnDevice(p, pos[p], d)
               /\ \A d \in DeviceNodes :
                      keptOnDevice(p, pos[p], d) # << >>
                          => d \in DOMAIN mountsByDevice

(* Two records of one device at different mountpoints were scanned. *)
C7_Witness ==
    \E p \in Procs :
        /\ HasLoaded(p)
        /\ pos[p] = 2
        /\ keptLines(p, 2) = {1, 2}
        /\ keptMount(p, 1).Path # keptMount(p, 2).Path
        /\ keptMount(p, 1).Device = keptMount(p, 2).Device
        /\ keptMount(p, 1).Device # EmptyStr

(* C8: while the table is initialized, the Device of every Mount in either *)
(* index is empty or a canonical path of a device node under which         *)
(* mountsByDevice lists that Mount.                                        *)
C8_DeviceVerified ==
    mountsInitialized
        => \A m \in byPathMounts \cup byDeviceMounts :
               \/ m.Device = EmptyStr
               \/ /\ canonicalizePath(m.Device) = [ok |-> TRUE, path |-> m.Device]
                  /\ isDevice(m.Device)
                  /\ m.Device \in DOMAIN mountsByDevice
                  /\ \E k \in 1..Len(mountsByDevice[m.Device]) :
                         mountsByDevice[m.Device][k] = m

(* The table holds a record whose mountinfo line named a symlink to the    *)
(* device, and one whose line named something that is no device.           *)
C8_Witness ==
    /\ mountsInitialized
    /\ \E p \in Procs :
          /\ HasLoaded(p)
          /\ \E i \in keptLines(p, pos[p]) :
                /\ LineDevice[file[p][i]] = LinkL
                /\ keptMount(p, i) \in byPathMounts
                /\ keptMount(p, i).Device = DevD
    /\ \E m \in byPathMounts : m.Device = EmptyStr

(* A step of the scan loop over a line whose record is not kept. *)
SkipsLine(p) ==
    /\ pc[p] = "scan"
    /\ pos'[p] = pos[p] + 1
    /\ ~LineKept[file[p][pos'[p]]]

(* The record of line i of p's file is in the indexes, unless a later      *)
(* record took its place in mountsByPath.                                  *)
Indexed(p, i) ==
    LET m == keptMount(p, i)
    IN  /\ m.Path \in DOMAIN mountsByPath
        /\ mountsByPath[m.Path].addr >= i
        /\ m.Device # EmptyStr
              => /\ m.Device \in DOMAIN mountsByDevice
                 /\ \E k \in 1..Len(mountsByDevice[m.Device]) :
                        mountsByDevice[m.Device][k] = m

(* C9: a line that fails to parse, whose mountpoint fails to canonicalize  *)
(* or is no directory changes neither index and the loop goes on to the    *)
(* next line; when the scan ends the table is initialized, the call goes   *)
(* on to its index reads, every kept record the scanner delivered is       *)
(* indexed and no Mount comes from a skipped line.                         *)
C9_BadRecordOnlySkipped ==
    [][\A p \in Procs :
          /\ SkipsLine(p)
                => /\ UNCHANGED <<mountsByPath, mountsByDevice, mountsInitialized>>
                   /\ pc'[p] = "scan"
                   /\ result'[p] = result[p]
          /\ pc[p] = "scan" /\ pc'[p] # "scan"
                => /\ pc'[p] = "read"
                   /\ mountsInitialized'
                   /\ \A i \in keptLines(p, pos[p]) : Indexed(p, i)'
                   /\ \A m \in (byPathMounts \cup byDeviceMounts)' :
                          m.addr \in keptLines(p, pos[p])]_vars

(* A load has ended after the scanner delivered a skipped line and then a  *)
(* kept one, which is indexed: once for each of the three reasons.         *)
SkippedThenKept(p) ==
    /\ HasLoaded(p)
    /\ pos[p] = 2
    /\ keptLines(p, 2) = {2}
    /\ Indexed(p, 2)

C9_Witness ==
    \E p \in Procs :
        /\ SkippedThenKept(p)
        /\ ~parseMountInfoLine(lineAt(p, 1)).ok

C9_WitnessNotCanonical ==
    \E p \in Procs :
        /\ SkippedThenKept(p)
        /\ parseMountInfoLine(lineAt(p, 1)).ok
        /\ ~canonicalizePath(parseMountInfoLine(lineAt(p, 1)).mnt.Path).ok

C9_WitnessNotDirectory ==
    \E p \in Procs :
        /\ SkippedThenKept(p)
        /\ parseMountInfoLine(lineAt(p, 1)).ok
        /\ canonicalizePath(parseMountInfoLine(lineAt(p, 1)).mnt.Path).ok

(* Directory q is c or one of the directories above c. *)
AncestorOrSelf(q, c) ==
    \/ q = c
    \/ q = PathRoot
    \/ /\ Len(q) < Len(c)
       /\ SubSeq(c, 1, Len(q)) = q
       /\ c[Len(q) + 1] = CH.sl

(* The mountpoints at or above the canonical form of p's argument. *)
Enclosing(p) ==
    {k \in DOMAIN mountsByPath :
        AncestorOrSelf(k, canonicalizePath(input[p]).path)}

Nearest(p) ==
    CHOOSE k \in Enclosing(p) : \A j \in Enclosing(p) : Len(j) <= Len(k)

(* FindMount has returned after its walk. *)
FindMountAnswered(p) ==
    /\ pc[p] = "done"
    /\ op[p] = "FindMount"
    /\ canonicalizePath(input[p]).ok
    /\ result[p].err # "open"

FindMountNearest(p) ==
    FindMountAnswered(p)
        => IF Enclosing(p) = {}
           THEN result[p].err = "ErrNotAMountpoint" /\ result[p].mounts = << >>
           ELSE result[p] = Ok(<<mountsByPath[Nearest(p)]>>)

(* C10: FindMount returns the Mount of the longest mountpoint at or above  *)
(* the canonical path, and not-a-mountpoint exactly when there is none;    *)
(* every iteration of the walk that does not return shortens the path, so  *)
(* the walk ends.                                                          *)
C10_NearestEnclosingMount ==
    [][\A p \in Procs :
          /\ pc[p] = "read" /\ pc'[p] = "done" => FindMountNearest(p)'
          /\ pc[p] = "read" /\ op[p] = "FindMount" /\ pc'[p] = "read"
             /\ path'[p] # path[p]
                => Len(path'[p]) < Len(path[p])]_vars

(* FindMount of /a/b/c has walked up two directories to the mount at /a. *)
C10_Witness ==
    \E p \in Procs :
        /\ FindMountAnswered(p)
        /\ input[p] = PathABC
        /\ Enclosing(p) = {PathA}
        /\ result[p].mounts # << >>
        /\ result[p].mounts[1].Path = PathA

(* FindMount has found no mountpoint up to the root. *)
C10_WitnessNone ==
    \E p \in Procs :
        /\ FindMountAnswered(p)
        /\ source # << >>
        /\ Enclosing(p) = {}
        /\ result[p].err = "ErrNotAMountpoint"

(* C11: the not-a-mountpoint error of FindMount names the canonical form   *)
(* of the path the caller asked about.  (The code does not do this: line   *)
(* 220 wraps the error with the loop variable, which by then is the root   *)
(* the walk ended at.)                                                     *)
C11_ErrorNamesQueriedPath ==
    \A p \in Procs :
        FindMountAnswered(p) /\ result[p].err = "ErrNotAMountpoint"
            => result[p].detail = canonicalizePath(input[p]).path

(* getMountsFromLink has returned something other than a load failure for  *)
(* a link that resolved to a device.                                       *)
LinkAnswered(p) ==
    /\ pc[p] = "done"
    /\ op[p] = "getMountsFromLink"
    /\ linkError(input[p]) = ""
    /\ result[p].err # "open"

(* C12: getMountsFromLink never succeeds with an empty list: no device key *)
(* of mountsByDevice has an empty list; for a link that resolves to a      *)
(* device no Mount of the table uses, the call fails with ErrFollowLink;   *)
(* and a successful call returns at least one Mount, each with Device      *)
(* equal to the device the link resolved to.                               *)
C12_NoEmptySuccess ==
    /\ \A d \in DOMAIN mountsByDevice : mountsByDevice[d] # << >>
    /\ \A p \in Procs :
          /\ pc[p] = "done" /\ op[p] = "getMountsFromLink" /\ result[p].err = ""
                => /\ linkError(input[p]) = ""
                   /\ result[p].mounts # << >>
                   /\ \A k \in 1..Len(result[p].mounts) :
                          result[p].mounts[k].Device = linkDevice(input[p])
          /\ LinkAnswered(p)
             /\ (\A m \in byPathMounts \cup byDeviceMounts :
                    m.Device # linkDevice(input[p]))
                => result[p].err = "ErrFollowLink" /\ result[p].mounts = << >>

(* A link to a device without mounts was refused while the table lists     *)
(* mounts of another device.                                               *)
C12_Witness ==
    \E p \in Procs :
        /\ LinkAnswered(p)
        /\ mountsInitialized
        /\ DOMAIN mountsByDevice # {}
        /\ linkDevice(input[p]) \notin DOMAIN mountsByDevice
        /\ result[p].err = "ErrFollowLink"

(* A link has been resolved to the two mounts of its device. *)
C12_WitnessMounts ==
    \E p \in Procs :
        /\ LinkAnswered(p)
        /\ result[p].err = ""
        /\ Len(result[p].mounts) = 2

(* The number of '=' bytes of a string. *)
RECURSIVE CountEq(_)
CountEq(str) ==
    IF str = << >> THEN 0
    ELSE (IF Head(str) = CH.eq THEN 1 ELSE 0) + CountEq(Tail(str))

(* The link has no '=' or several, or the text before its '=' is not UUID. *)
InvalidLink(link) ==
    \/ CountEq(link) # 1
    \/ SubSeq(link, 1, Len(uuidToken)) # uuidToken
    \/ link[Len(uuidToken) + 1] # CH.eq

(* C13: the step that calls getMountsFromLink with a link that has zero or *)
(* several '=' or a token other than UUID returns ErrFollowLink at once:   *)
(* no path was handed to canonicalizePath, the mutex and the table are as  *)
(* before, and the call is never at the lock, the load or the index read.  *)
C13_InvalidLinkRejectedFirst ==
    [][\A p \in Procs :
          pc[p] = "idle" /\ op'[p] = "getMountsFromLink" /\ InvalidLink(input'[p])
              => /\ pc'[p] = "done"
                 /\ result'[p] = Failure("ErrFollowLink", input'[p])
                 /\ resolved'[p] = {}
                 /\ mountMutex' = mountMutex
                 /\ UNCHANGED <<mountsByPath, mountsByDevice, mountsInitialized>>]_vars

(* A LABEL link has been rejected while the other caller holds the mutex   *)
(* in the middle of a load.                                                *)
C13_Witness ==
    \E p, q \in Procs :
        /\ pc[p] = "done"
        /\ op[p] = "getMountsFromLink"
        /\ InvalidLink(input[p])
        /\ input[p] = <<CH.L, CH.A, CH.B, CH.E, CH.L, CH.eq, CH.U>>
        /\ result[p].err = "ErrFollowLink"
        /\ pc[q] = "scan"
        /\ mountMutex = q
        /\ ~mountsInitialized

(* A link with two '=' and a link with none have been rejected. *)
C13_WitnessFormat ==
    \E p, q \in Procs :
        /\ pc[p] = "done" /\ op[p] = "getMountsFromLink"
        /\ CountEq(input[p]) = 2 /\ result[p].err = "ErrFollowLink"
        /\ pc[q] = "done" /\ op[q] = "getMountsFromLink"
        /\ CountEq(input[q]) = 0 /\ result[q].err = "ErrFollowLink"

(* The entries of the UUID directory that are symlinks to device d. *)
Matching(d) ==
    {k \in 1..Len(uuidEntries) :
        /\ uuidEntries[k].symlink
        /\ canonicalizePath(Join(uuidDirectory, uuidEntries[k].name))
               = [ok |-> TRUE, path |-> d]}

Min(S) == CHOOSE x \in S : \A y \in S : x <= y

(* makeLink has returned after reading the directory for a mount with a    *)
(* device and token UUID.                                                  *)
LinkMade(p) ==
    /\ pc[p] = "done"
    /\ op[p] = "makeLink"
    /\ input[p].token = uuidToken
    /\ input[p].mnt.Device # EmptyStr
    /\ result[p].err # "ErrMakeLink: ReadDir"

(* C14: makeLink for a mount with a device and token UUID returns          *)
(* UUID=<name> for the first entry, in listing order, that is a symlink    *)
(* whose canonical target is the mount's device, whatever entries that are *)
(* no symlinks or do not canonicalize come before it; it has resolved the  *)
(* symlinks up to that entry and no other; and it reports that the device  *)
(* has no UUID exactly when no entry of the directory matches.             *)
C14_FirstMatchingEntry ==
    \A p \in Procs :
        LinkMade(p)
            => LET found == Matching(input[p].mnt.Device)
                   last  == IF found = {} THEN Len(uuidEntries) ELSE Min(found)
               IN  /\ resolved[p] =
                          {Join(uuidDirectory, uuidEntries[k].name) :
                              k \in {j \in 1..last : uuidEntries[j].symlink}}
                   /\ IF found = {}
                      THEN result[p] =
                               Failure("ErrMakeLink: no UUID", input[p].mnt.Device)
                      ELSE result[p] = Link(LinkOf(uuidEntries[Min(found)].name))

(* The link of a mount of /d is made from the third entry: the regular     *)
(* file and the dangling symlink before it were skipped, the later UUID of *)
(* /d was not reached.                                                     *)
C14_Witness ==
    \E p \in Procs :
        /\ LinkMade(p)
        /\ input[p].mnt.Device = DevD
        /\ Matching(DevD) = {3, 5}
        /\ ~uuidEntries[1].symlink
        /\ ~canonicalizePath(Join(uuidDirectory, uuidEntries[2].name)).ok
        /\ result[p] = Link(LinkOf(<<CH.U>>))

(* The whole directory was read for a device without UUID. *)
C14_WitnessNoUuid ==
    \E p \in Procs :
        /\ LinkMade(p)
        /\ input[p].mnt.Device = DevG
        /\ result[p].err = "ErrMakeLink: no UUID"
        /\ Cardinality(resolved[p]) = 4

(* C15: unescapeString applied to what the kernel wrote for a byte string  *)
(* returns that byte string, whatever bytes it holds.                      *)
C15_UnescapeInvertsKernel ==
    \A p \in Procs :
        pc[p] = "done" /\ op[p] = "unescapeString"
        /\ path[p] = kernelEscape(input[p])
            => result[p] = Text(input[p])

(* A string of a space, a tab, a backslash and a byte that is no UTF-8     *)
(* went through the kernel and came back.                                  *)
C15_Witness ==
    \E p \in Procs :
        /\ pc[p] = "done"
        /\ op[p] = "unescapeString"
        /\ input[p] = <<CH.sp, 9, CH.bs, 255>>
        /\ Len(path[p]) = 13
        /\ result[p].detail = input[p]

(* Three octal digits that write a byte value, 000 to 377. *)
IsOctalByte(digits) ==
    /\ Len(digits) = 3
    /\ \A k \in 1..3 : IsOctalDigit(digits[k])
    /\ OctalValue(digits) <= 255

(* The decoding the claim describes: a backslash and the three characters  *)
(* after it become one byte exactly when those are three octal digits of a *)
(* byte value; any other backslash is copied and the scan goes on with the *)
(* next character.                                                         *)
RECURSIVE DecodeOctalEscapes(_, _)
DecodeOctalEscapes(str, i) ==
    IF i > Len(str) THEN << >>
    ELSE IF str[i] = CH.bs /\ i + 3 <= Len(str)
                /\ IsOctalByte(SubSeq(str, i + 1, i + 3))
         THEN <<OctalValue(SubSeq(str, i + 1, i + 3))>>
                  \o DecodeOctalEscapes(str, i + 4)
         ELSE <<str[i]>> \o DecodeOctalEscapes(str, i + 1)

(* C16: unescapeString decodes a backslash exactly when the three          *)
(* characters after it are three octal digits of a byte value, and copies  *)
(* it otherwise.  (The code does not do this: strconv.ParseInt(s, 8, 8)    *)
(* takes a sign for a digit and refuses values above 177.)                 *)
C16_DecodesExactlyOctalBytes ==
    \A p \in Procs :
        pc[p] = "done" /\ op[p] = "unescapeString"
            => result[p].detail = DecodeOctalEscapes(path[p], 1)

(* The separators of a line's fields at index 6 or later, fields counted   *)
(* from 0.                                                                 *)
Separators(fields) ==
    {k \in FirstOptional..(Len(fields) - 1) : fields[k + 1] = <<CH.dash>>}

(* parseMountInfoLine has returned for a line that has a separator with at *)
(* least three fields after it.                                            *)
Parsed(p) ==
    /\ pc[p] = "done"
    /\ op[p] = "parseMountInfoLine"
    /\ Len(Split(input[p], CH.sp)) >= MinFields
    /\ Separators(Split(input[p], CH.sp)) # {}
    /\ Len(Split(input[p], CH.sp)) - 1
           - Min(Separators(Split(input[p], CH.sp))) >= 3

(* C17: parseMountInfoLine returns nil for a line of fewer than 10 fields, *)
(* without a "-" at index 6 or later, or with fewer than 3 fields after    *)
(* the first such "-"; for every other line it returns the Mount of the    *)
(* unescaped fields 4, n+1 and n+2, n being the index of that "-".  No     *)
(* field outside the line is read on the way.                              *)
C17_ParseMountInfoLine ==
    \A p \in Procs :
        pc[p] = "done" /\ op[p] = "parseMountInfoLine"
            => LET fields == Split(input[p], CH.sp)
                   n      == Min(Separators(fields))
               IN  IF Parsed(p)
                   THEN result[p] =
                            Ok(<<[Path           |-> unescapeString(fields[4 + 1]),
                                  FilesystemType |-> unescapeString(fields[n + 1 + 1]),
                                  Device         |-> unescapeString(fields[n + 2 + 1])]>>)
                   ELSE result[p] = Failure("nil", EmptyStr)

(* A line with two optional fields, a "-" among its first six fields and   *)
(* an escaped mount point has been parsed.                                 *)
C17_Witness ==
    \E p \in Procs :
        /\ Parsed(p)
        /\ Min(Separators(Split(input[p], CH.sp))) = 8
        /\ Split(input[p], CH.sp)[5 + 1] = <<CH.dash>>
        /\ result[p].mounts[1].Path = <<CH.sl, CH.sp>>
        /\ result[p].mounts[1].Device = <<CH.sl, CH.a>>

(* A line of ten fields whose only "-" at index 6 or later is its last     *)
(* field has been refused.                                                 *)
C17_WitnessRejected ==
    \E p \in Procs :
        /\ pc[p] = "done"
        /\ op[p] = "parseMountInfoLine"
        /\ Len(Split(input[p], CH.sp)) = MinFields
        /\ Separators(Split(input[p], CH.sp)) = {9}
        /\ result[p] = Failure("nil", EmptyStr)

(* Where a call is between its entry and its return. *)
InFlight == InLock \cup {"lock"}

(* C18: a caller holds the mutex only between its Lock and its return,     *)
(* whatever the return (a failed open, not-a-mountpoint, a link without    *)
(* mounts), and is never waiting for a mutex it holds; while a call is in  *)
(* flight some caller can take a step; and under fair scheduling every     *)
(* call that is in flight returns.                                         *)
C18_CallsReturn ==
    /\ [](\A p \in Procs :
             /\ pc[p] \notin InLock => mountMutex # p
             /\ pc[p] \in InLock => mountMutex = p)
    /\ []((\E p \in Procs : pc[p] \in InFlight)
             => \E p \in Procs : ENABLED CallerStep(p))
    /\ \A p \in Procs : (pc[p] \in InFlight) ~> (pc[p] = "done")

(* Both calls have returned, one with the error of a failed open and one   *)
(* with not-a-mountpoint, and the mutex is free.                           *)
C18_Witness ==
    \E p, q \in Procs :
        /\ pc[p] = "done" /\ result[p].err = "open"
        /\ pc[q] = "done" /\ result[q].err = "ErrNotAMountpoint"
        /\ mountMutex = 0

(* A call waited at the lock while the other caller was scanning, and a    *)
(* link lookup has failed.                                                 *)
C18_WitnessWaiting ==
    \E p, q \in Procs :
        /\ pc[p] = "lock"
        /\ pc[q] = "scan"
        /\ op[q] = "getMountsFromLink"
        /\ mountMutex = q

(* C19: while the table is initialized, every Mount listed under a device  *)
(* is the Mount that mountsByPath holds under its Path.  (The code does    *)
(* not keep this: line 152 replaces the Mount of a mountpoint that is      *)
(* listed again, and line 157 leaves the replaced one in the device list.) *)
C19_IndexesAgree ==
    mountsInitialized
        => \A m \in byDeviceMounts :
               /\ m.Path \in DOMAIN mountsByPath
               /\ mountsByPath[m.Path] = m

(* The mounts of the table that makeLink gives this link. *)
MountsLinkedBy(link) ==
    {m \in byPathMounts \cup byDeviceMounts :
        /\ m.Device # EmptyStr
        /\ makeLink(m, uuidToken, TRUE).res = Link(link)}

(* C20: when getMountsFromLink reads the loaded table for a link, it       *)
(* succeeds and returns every Mount of that table for which makeLink, with *)
(* token UUID and the same UUID directory, returns that link.              *)
C20_LinkRoundTrip ==
    [][\A p \in Procs :
          pc[p] = "read" /\ op[p] = "getMountsFromLink" /\ pc'[p] = "done"
              => \A m \in MountsLinkedBy(input[p]) :
                     /\ result'[p].err = ""
                     /\ \E k \in 1..Len(result'[p].mounts) :
                            result'[p].mounts[k] = m
                     /\ UNCHANGED <<mountsByPath, mountsByDevice>>]_vars

(* The link made for the mount at /a/b was followed on the same table and  *)
(* gave that mount and the other mount of its device.                      *)
C20_Witness ==
    \E p \in Procs :
        /\ pc[p] = "done"
        /\ op[p] = "getMountsFromLink"
        /\ mountsInitialized
        /\ Cardinality(MountsLinkedBy(input[p])) = 2
        /\ \E m \in MountsLinkedBy(input[p]) : m.Path = PathAB
        /\ \A m \in MountsLinkedBy(input[p]) :
               \E k \in 1..Len(result[p].mounts) : result[p].mounts[k] = m

(* makeLink has returned the link that getMountsFromLink is then given. *)
C20_WitnessMade ==
    \E p \in Procs :
        /\ LinkMade(p)
        /\ input[p].mnt \in byPathMounts
        /\ result[p].err = ""
        /\ result[p].detail \in LinkInputs
        /\ mountsInitialized

====
